---- MODULE Spec2Model ----
(***************************************************************************)
(* Model of the three sampling entry points of GVPTransformerModel        *)
(* (esm/inverse_folding/gvp_transformer.py): sample, sample_batch and      *)
(* sample_batch2.  Tensors are functions over 0-based index ranges, one    *)
(* nesting level per axis.  Floating point values are records so that nan  *)
(* and the infinities of a division by zero are values like any other.     *)
(* Logits are expressed in units of ln 2, so exp() of a logit is a power   *)
(* of two and every probability is an exact fraction.                      *)
(***************************************************************************)
EXTENDS Integers, Sequences, FiniteSets, TLC

VARIABLES
    strategy,           \* which entry point the call is
    L,                  \* len(coords)
    num_samples,        \* argument num_samples (1 for sample)
    partial_seq,        \* argument partial_seq: [isNone, toks]
    temperature,        \* argument temperature
    device,             \* argument device: "None" or "cuda"
    seed,               \* the random generator's seed at the start of a call
    dec,                \* the decoder's parameters (its weights)
    pc,                 \* position in the entry point's code
    bound,              \* the local names bound so far
    err,                \* the exception that ended the call, or "none"
    sampled_tokens,     \* the tensor the name sampled_tokens is bound to
    all_sampled_tokens, \* sample_batch: the list of per-sample clones
    incremental_state,  \* the incremental decode cache
    all_encoder_out,    \* what the encoder returned
    encoder_out,        \* what is handed to the decoder
    sample_idx,         \* sample_batch: outer loop index
    i,                  \* decode loop index
    probs,              \* the last softmax result
    all_seqs,           \* sample_batch / sample_batch2: the list being returned
    result,             \* the returned value once pc = "done"
    encoderCalls,       \* number of encoder invocations in this call
    decoderCalls,       \* number of decoder invocations in this call
    rng,                \* the random generator's state
    drawCalls,          \* number of torch.multinomial calls that returned
    written,            \* the <<row, position, value, sample_idx>> writes of the
                        \* decode loops, in order
    buffers,            \* the sampled_tokens values after each step, in order
    probsTrace,         \* the probs of each decoder invocation, in order
    call,               \* 1 for the first call on the model object, 2 for a repeat
    prev                \* summary of the first call while the second runs

vars == <<strategy, L, num_samples, partial_seq, temperature, device, seed, dec,
          pc, bound, err, sampled_tokens, all_sampled_tokens, incremental_state,
          all_encoder_out, encoder_out, sample_idx, i, probs, all_seqs, result,
          encoderCalls, decoderCalls, rng, drawCalls, written, buffers, probsTrace,
          call, prev>>

inputs == <<strategy, L, num_samples, partial_seq, temperature, device, seed, dec>>

(***************************************************************************)
(* Bounds of the model.                                                    *)
(***************************************************************************)
MaxL == 2
MaxSamples == 2
MaxSeed == 1

(***************************************************************************)
(* The vocabulary (self.decoder.dictionary).                               *)
(***************************************************************************)
\* A token is the sequence of its characters, so that joining tokens into the
\* returned string and measuring that string are what they are in the code.
PadTok == <<"<", "p", "a", "d", ">">>

MaskTok == <<"<", "m", "a", "s", "k", ">">>

CathTok == <<"<", "c", "a", "t", "h", ">">>

all_toks == <<PadTok, <<"A">>, <<"C">>, MaskTok, CathTok>>

V == Len(all_toks)

Vocab == 0 .. (V - 1)

get_idx(tok) == (CHOOSE k \in 1 .. V : all_toks[k] = tok) - 1

get_tok(idx) == all_toks[idx + 1]

mask_idx == get_idx(MaskTok)

cath_idx == get_idx(CathTok)

pad_idx == get_idx(PadTok)

SpecialIdx == {mask_idx, cath_idx, pad_idx}

(***************************************************************************)
(* Tensor helpers.                                                         *)
(***************************************************************************)
Size0(t) == Cardinality(DOMAIN t)

Range0(n) == 0 .. (n - 1)

\* sampled_tokens[:, :n]
Prefix(t, n) == [r \in DOMAIN t |-> [p \in Range0(n) |-> t[r][p]]]

\* t.repeat(n, 1)
Repeat(t, n) == [r \in Range0(n * Size0(t)) |-> t[r % Size0(t)]]

\* m.transpose(0, 1) of a 2-d tensor
Transpose2(m) ==
    [c \in DOMAIN m[0] |-> [r \in DOMAIN m |-> m[r][c]]]

\* t.transpose(0, 1) of a 3-d tensor
Transpose3(t) ==
    [c \in DOMAIN t[0] |-> [r \in DOMAIN t |-> t[r][c]]]

(***************************************************************************)
(* Floating point.                                                         *)
(***************************************************************************)
Fin(x) == [k |-> "fin", v |-> x]

NaN == [k |-> "nan", v |-> 0]

Inf(s) == [k |-> "inf", v |-> s]

\* x / T for a finite x and a number T
DivNum(x, T) ==
    IF x.k # "fin" THEN x
    ELSE IF T > 0 THEN Fin(x.v \div T)
    ELSE IF T < 0 THEN Fin(-(x.v \div (-T)))
    ELSE IF x.v > 0 THEN Inf(1)
    ELSE IF x.v < 0 THEN Inf(-1)
    ELSE NaN

RECURSIVE Pow2(_)
Pow2(n) == IF n <= 0 THEN 1 ELSE 2 * Pow2(n - 1)

RECURSIVE SumTo(_, _)
\* f[0] + ... + f[n]
SumTo(f, n) == IF n < 0 THEN 0 ELSE f[n] + SumTo(f, n - 1)

ProbNaN == [k |-> "nan", n |-> 0, d |-> 0]

Prob(n, d) == [k |-> "fin", n |-> n, d |-> d]

\* softmax of one vector (a function over 0..n-1 of floats)
SoftmaxRow(row) ==
    LET D == DOMAIN row
        fins == {c \in D : row[c].k = "fin"}
        bad == \/ \E c \in D : row[c].k = "nan"
               \/ \E c \in D : row[c].k = "inf" /\ row[c].v > 0
               \/ fins = {}
    IN  IF bad THEN [c \in D |-> ProbNaN]
        ELSE LET m == CHOOSE x \in {row[c].v : c \in fins} :
                          \A c \in fins : x <= row[c].v
                 w == [c \in D |-> IF c \in fins THEN Pow2(row[c].v - m) ELSE 0]
                 tot == SumTo(w, Size0(row) - 1)
             IN  [c \in D |-> Prob(w[c], tot)]

(***************************************************************************)
(* The random generator and torch.multinomial.                             *)
(***************************************************************************)
\* the generator's next state
NextRng(s) == (5 * s + 3) % 16

RECURSIVE RngAfter(_, _)
\* the generator's state after n variates
RngAfter(s, n) == IF n = 0 THEN s ELSE RngAfter(NextRng(s), n - 1)

\* the category a uniform variate u selects in one row of probabilities
InverseCDF(row, u) ==
    LET nums == [c \in DOMAIN row |-> row[c].n]
        x == u % row[0].d
    IN  CHOOSE c \in DOMAIN row :
            /\ SumTo(nums, c) > x
            /\ (c = 0 \/ SumTo(nums, c - 1) <= x)

HasNaN(p) == \E r \in DOMAIN p : \E c \in DOMAIN p[r] : p[r][c].k = "nan"

\* torch.multinomial(p, 1).squeeze(-1) of a 2-d tensor p, from generator
\* state s: one draw per row of p, over the row's categories
MultinomialSqueeze(p, s) ==
    [r \in DOMAIN p |-> InverseCDF(p[r], RngAfter(s, r + 1))]

\* whether a value of n elements can be assigned to a slot of m elements
Broadcastable(n, m) == n = m \/ n = 1

(***************************************************************************)
(* The encoder and the decoder (self.encoder, self.decoder).               *)
(***************************************************************************)
\* self.encoder(batch_coords, padding_mask, confidence) on a batch of B
Encoder(B) ==
    [encoder_out |-> <<[b \in Range0(B) |-> "emb"]>>,
     encoder_padding_mask |-> <<[b \in Range0(B) |-> FALSE]>>,
     encoder_embedding |-> <<[b \in Range0(B) |-> "tok_emb"]>>,
     encoder_states |-> <<>>]

RECURSIVE CacheSum(_, _)
\* what the cached entries contribute to row b of the next logits
CacheSum(cache, b) ==
    IF cache = <<>> THEN 0
    ELSE (IF b \in DOMAIN Head(cache).toks THEN Head(cache).toks[b] ELSE 0)
         + CacheSum(Tail(cache), b)

\* the cache entry one decoder invocation on prefix `tokens` appends: the
\* projections of the prefix's last token, at the prefix's length; `by` records
\* the call and the sample whose decode loop made the invocation
CacheEntry(tokens) ==
    LET n == Size0(tokens[0])
    IN  [toks |-> [r \in DOMAIN tokens |-> tokens[r][n - 1]], len |-> n,
         by |-> <<call, sample_idx>>]

\* self.decoder(tokens, enc, incremental_state=cache): the logits (B x V x 1),
\* the cache after the call, and whether the call raised (the attention over
\* the encoder output asserts that both batch sizes agree)
Decoder(tokens, enc, cache) ==
    LET B == Size0(tokens)
        after == Append(cache, CacheEntry(tokens))
        mismatch == B # Size0(enc.encoder_out[1])
    IN  [raised |-> mismatch,
         cache |-> after,
         logits |-> [b \in Range0(B) |-> [v \in Vocab |-> [t \in Range0(1) |->
                        Fin(2 * ((dec.w + v + CacheSum(after, b)) % 2))]]]]

(***************************************************************************)
(* Shared pieces of the three entry points.                                *)
(***************************************************************************)
\* a cache that is kept on the model object instead of created per call
ReusedIncrementalState == incremental_state

\* lines 120, 181 and 260: incremental_state = dict()
NewIncrementalState == <<>>

\* the token buffer after the loop over partial_seq stopped (normally, or at
\* the first out-of-range index)
InitialTokens ==
    [r \in Range0(1) |-> [p \in 0 .. L |->
        IF p = 0 THEN cath_idx
        ELSE IF ~partial_seq.isNone /\ p <= Len(partial_seq.toks)
             THEN get_idx(partial_seq.toks[p])
             ELSE mask_idx]]

\* a buffer allocated one position too long
PartialTooLongByTwo == ~partial_seq.isNone /\ Len(partial_seq.toks) > L + 1

\* whether the loop over partial_seq indexes past the buffer
PartialTooLong == ~partial_seq.isNone /\ Len(partial_seq.toks) > L

\* logits /= temperature on a 2-d tensor
Scale2(m) == [r \in DOMAIN m |-> [c \in DOMAIN m[r] |-> DivNum(m[r][c], temperature)]]

\* logits /= temperature on a 3-d tensor
Scale3(t) == [a \in DOMAIN t |-> Scale2(t[a])]

\* F.softmax(m, dim=-1) of a 2-d tensor
Softmax2(m) == [r \in DOMAIN m |-> SoftmaxRow(m[r])]

\* F.softmax(t, dim=-1) of a 3-d tensor
Softmax3(t) == [a \in DOMAIN t |-> Softmax2(t[a])]

\* ''.join([get_tok(a) for a in row[1:]])
RECURSIVE JoinFrom(_, _)
JoinFrom(row, p) ==
    IF p > Size0(row) - 1 THEN <<>> ELSE get_tok(row[p]) \o JoinFrom(row, p + 1)

SeqString(row) == JoinFrom(row, 1)

\* a decode loop that resamples every position, fixed or not
IsPendingAlways(tok, r, col) == TRUE

\* lines 145, 221 and 319: whether row r of tok is still the mask at col
IsPending(tok, r, col) == tok[r][col] = mask_idx

\* an assignment that fills the buffer from col to its end
AssignColumnOnwards(tok, col, val) ==
    [r \in DOMAIN tok |->
        [q \in DOMAIN tok[r] |->
            IF q < col THEN tok[r][q]
            ELSE IF Size0(val) = 1 THEN val[0] ELSE val[r]]]

\* line 146 / 222: sampled_tokens[:, i] = val, val of one element or one per row
AssignColumn(tok, col, val) ==
    [r \in DOMAIN tok |->
        [tok[r] EXCEPT ![col] = IF Size0(val) = 1 THEN val[0] ELSE val[r]]]

\* One iteration of the decode loop of sample and of sample_batch on the
\* buffer tok: what it leaves behind.
DecodeOne(tok) ==
    LET d == Decoder(Prefix(tok, i), encoder_out, incremental_state)
        p == Softmax2(Scale2(Transpose2(d.logits[0])))
        pending == IsPending(tok, 0, i)
        draws == ~d.raised /\ pending /\ ~HasNaN(p)
        val == MultinomialSqueeze(p, rng)
        fits == Broadcastable(Size0(val), Size0(tok))
    IN  [err |-> IF d.raised THEN "AssertionError"
                 ELSE IF pending /\ HasNaN(p) THEN "RuntimeError"
                 ELSE IF pending /\ ~fits THEN "RuntimeError"
                 ELSE "none",
         cache |-> d.cache,
         probs |-> IF d.raised THEN <<>> ELSE p,
         rng |-> IF draws THEN RngAfter(rng, Size0(p)) ELSE rng,
         drawn |-> IF draws THEN 1 ELSE 0,
         tokens |-> IF draws /\ fits THEN AssignColumn(tok, i, val) ELSE tok,
         wrote |-> IF draws /\ fits
                   THEN [k \in 1 .. Size0(tok) |->
                            <<k - 1, i, AssignColumn(tok, i, val)[k - 1][i]>>]
                   ELSE <<>>]

RECURSIVE RowLoop(_, _, _, _)
\* sample_batch2, lines 317-321: the loop over j from row j on, in state st
RowLoop(j, n, p, st) ==
    IF j >= n \/ st.err # "none" THEN st
    ELSE IF ~IsPending(st.tokens, j, i) THEN RowLoop(j + 1, n, p, st)
    ELSE LET pj == [v \in DOMAIN p |-> p[v][j]]
             rng1 == RngAfter(st.rng, Size0(pj))
             val == MultinomialSqueeze(pj, rng1)
             rng2 == RngAfter(rng1, Size0(pj))
         IN  IF HasNaN(pj) THEN [st EXCEPT !.err = "RuntimeError"]
             ELSE IF ~Broadcastable(Size0(val), 1)
             THEN [st EXCEPT !.err = "RuntimeError", !.rng = rng2,
                             !.drawn = st.drawn + 2]
             ELSE RowLoop(j + 1, n, p,
                     [st EXCEPT !.rng = rng2,
                                !.drawn = st.drawn + 2,
                                !.tokens = [st.tokens EXCEPT ![j][i] = val[0]],
                                !.wrote = Append(st.wrote, <<j, i, val[0]>>)])

\* One iteration of the decode loop of sample_batch2 on the buffer tok.
DecodeBatch(tok) ==
    LET d == Decoder(Prefix(tok, i), encoder_out, incremental_state)
        lg == Scale3(Transpose3(d.logits))
        p == Softmax3(lg)
        st == RowLoop(0, Size0(lg[0]), p,
                      [err |-> "none", rng |-> rng, drawn |-> 0, tokens |-> tok,
                       wrote |-> <<>>])
    IN  IF d.raised
        THEN [err |-> "AssertionError", cache |-> d.cache, probs |-> <<>>,
              rng |-> rng, drawn |-> 0, tokens |-> tok, wrote |-> <<>>]
        ELSE [err |-> st.err, cache |-> d.cache, probs |-> p,
              rng |-> st.rng, drawn |-> st.drawn, tokens |-> st.tokens,
              wrote |-> st.wrote]

(***************************************************************************)
(* The state before a call, and the calls a caller can make.               *)
(***************************************************************************)
Strategies == {"sample", "sample_batch", "sample_batch2"}

Temperatures == {-1, 0, 1, 2}

PartialToks == {<<"A">>, <<"C">>, MaskTok}

\* the partial_seq arguments tried for coordinates of length len: None, and
\* every token list up to one longer than len
PartialSeqs(len) ==
    {[isNone |-> TRUE, toks |-> <<>>]}
    \cup {[isNone |-> FALSE, toks |-> t] :
            t \in UNION {[1 .. n -> PartialToks] : n \in 0 .. (len + 1)}}

\* the locals of an entry point when it is entered
Entry ==
    /\ pc = "start"
    /\ bound = {}
    /\ err = "none"
    /\ sampled_tokens = <<>>
    /\ all_sampled_tokens = <<>>
    /\ incremental_state = <<>>
    /\ all_encoder_out = <<>>
    /\ encoder_out = <<>>
    /\ sample_idx = 0
    /\ i = 0
    /\ probs = <<>>
    /\ all_seqs = <<>>
    /\ result = <<>>
    /\ encoderCalls = 0
    /\ decoderCalls = 0
    /\ rng = seed
    /\ drawCalls = 0
    /\ written = <<>>
    /\ buffers = <<>>
    /\ probsTrace = <<>>

Init ==
    /\ strategy \in Strategies
    /\ L \in 1 .. MaxL
    /\ num_samples \in (IF strategy = "sample" THEN {1} ELSE 1 .. MaxSamples)
    /\ partial_seq \in PartialSeqs(L)
    /\ temperature \in Temperatures
    /\ device \in {"None", "cuda"}
    /\ seed \in 0 .. MaxSeed
    /\ dec \in [w : 0 .. 1]
    /\ call = 1
    /\ prev = <<>>
    /\ Entry

\* what every step of a call leaves alone
Frame == UNCHANGED <<inputs, call, prev>>

(***************************************************************************)
(* Lines 112-120, 173-181 and 252-260: the token buffer and the cache.     *)
(***************************************************************************)
InitTokens ==
    /\ pc = "start"
    /\ sampled_tokens' = InitialTokens
    /\ IF PartialTooLong
       THEN /\ pc' = "error"
            /\ err' = "IndexError"
            /\ bound' = bound \cup {"mask_idx", "sampled_tokens"}
            /\ UNCHANGED incremental_state
       ELSE /\ pc' = "encode"
            /\ err' = "none"
            /\ bound' = bound \cup {"mask_idx", "sampled_tokens", "incremental_state"}
            /\ incremental_state' = NewIncrementalState
    /\ UNCHANGED <<all_sampled_tokens, all_encoder_out, encoder_out, sample_idx, i,
                   probs, all_seqs, result, encoderCalls, decoderCalls, rng, drawCalls,
                   written, buffers, probsTrace>>
    /\ Frame

Sample_Init == strategy = "sample" /\ InitTokens

SampleBatch_Init == strategy = "sample_batch" /\ InitTokens

SampleBatch2_Init == strategy = "sample_batch2" /\ InitTokens

(***************************************************************************)
(* Lines 123, 184 and 263: the encoder call.                               *)
(***************************************************************************)
Sample_Encode ==
    /\ pc = "encode" /\ strategy = "sample"
    /\ encoder_out' = Encoder(1)
    /\ encoderCalls' = encoderCalls + 1
    /\ bound' = bound \cup {"encoder_out"}
    /\ pc' = "device"
    /\ UNCHANGED <<err, sampled_tokens, all_sampled_tokens, incremental_state,
                   all_encoder_out, sample_idx, i, probs, all_seqs, result,
                   decoderCalls, rng, drawCalls, written, buffers, probsTrace>>
    /\ Frame

BatchEncode ==
    /\ pc = "encode"
    /\ all_encoder_out' = Encoder(num_samples)
    /\ encoderCalls' = encoderCalls + 1
    /\ bound' = bound \cup {"all_encoder_out"}
    /\ pc' = "device"
    /\ UNCHANGED <<err, sampled_tokens, all_sampled_tokens, incremental_state,
                   encoder_out, sample_idx, i, probs, all_seqs, result,
                   decoderCalls, rng, drawCalls, written, buffers, probsTrace>>
    /\ Frame

SampleBatch_Encode == strategy = "sample_batch" /\ BatchEncode

SampleBatch2_Encode == strategy = "sample_batch2" /\ BatchEncode

(***************************************************************************)
(* sample, lines 129-150.                                                  *)
(***************************************************************************)
Sample_ToDevice ==
    /\ pc = "device" /\ strategy = "sample"
    /\ sampled_tokens' = sampled_tokens
    /\ pc' = "decode"
    /\ i' = 1
    /\ buffers' = <<sampled_tokens>>
    /\ UNCHANGED <<bound, err, all_sampled_tokens, incremental_state, all_encoder_out,
                   encoder_out, sample_idx, probs, all_seqs, result, encoderCalls,
                   decoderCalls, rng, drawCalls, written, probsTrace>>
    /\ Frame

\* a decode loop that skips the decoder where the position is fixed
ApplyStepSkippingFixed(o) ==
    LET skipped == o.err = "none" /\ o.wrote = <<>>
    IN  /\ err' = o.err
        /\ pc' = IF o.err # "none" THEN "error" ELSE "decode"
        /\ i' = IF o.err # "none" THEN i ELSE i + 1
        /\ incremental_state' = IF skipped THEN incremental_state ELSE o.cache
        /\ decoderCalls' = IF skipped THEN decoderCalls ELSE decoderCalls + 1
        /\ probs' = o.probs
        /\ probsTrace' = Append(probsTrace, o.probs)
        /\ rng' = o.rng
        /\ drawCalls' = drawCalls + o.drawn
        /\ sampled_tokens' = o.tokens
        /\ written' = written \o [n \in DOMAIN o.wrote |-> Append(o.wrote[n], sample_idx)]
        /\ buffers' = Append(buffers, o.tokens)

\* the effect of one decode-loop iteration with outcome o
ApplyStep(o) ==
    /\ err' = o.err
    /\ pc' = IF o.err # "none" THEN "error" ELSE "decode"
    /\ i' = IF o.err # "none" THEN i ELSE i + 1
    /\ incremental_state' = o.cache
    /\ decoderCalls' = decoderCalls + 1
    /\ probs' = o.probs
    /\ probsTrace' = Append(probsTrace, o.probs)
    /\ rng' = o.rng
    /\ drawCalls' = drawCalls + o.drawn
    /\ sampled_tokens' = o.tokens
    /\ written' = written \o [n \in DOMAIN o.wrote |-> Append(o.wrote[n], sample_idx)]
    /\ buffers' = Append(buffers, o.tokens)

Sample_DecodeStep ==
    /\ pc = "decode" /\ strategy = "sample"
    /\ i <= L
    /\ ApplyStep(DecodeOne(sampled_tokens))
    /\ UNCHANGED <<bound, all_sampled_tokens, all_encoder_out, encoder_out,
                   sample_idx, all_seqs, result, encoderCalls>>
    /\ Frame

Sample_Return ==
    /\ pc = "decode" /\ strategy = "sample"
    /\ i > L
    /\ result' = <<SeqString(sampled_tokens[0])>>
    /\ pc' = "done"
    /\ UNCHANGED <<bound, err, sampled_tokens, all_sampled_tokens, incremental_state,
                   all_encoder_out, encoder_out, sample_idx, i, probs, all_seqs,
                   encoderCalls, decoderCalls, rng, drawCalls, written, buffers, probsTrace>>
    /\ Frame

(***************************************************************************)
(* sample_batch, lines 186-228.                                            *)
(***************************************************************************)
SampleBatch_ToDevice ==
    /\ pc = "device" /\ strategy = "sample_batch"
    /\ IF device # "None"
       THEN /\ all_sampled_tokens' = [k \in 1 .. num_samples |-> sampled_tokens]
            /\ bound' = bound \cup {"all_sampled_tokens"}
       ELSE UNCHANGED <<all_sampled_tokens, bound>>
    /\ all_seqs' = <<>>
    /\ sample_idx' = 0
    /\ pc' = "outer"
    /\ UNCHANGED <<err, sampled_tokens, incremental_state, all_encoder_out,
                   encoder_out, i, probs, result, encoderCalls, decoderCalls, rng, drawCalls,
                   written, buffers, probsTrace>>
    /\ Frame

\* lst[a:b] of a Python list lst (0-based, never raises)
ListSlice(lst, a, b) ==
    LET hi == IF b < Len(lst) THEN b ELSE Len(lst)
    IN  [n \in 1 .. (hi - a) |-> lst[a + n]]

\* lines 199-208: the encoder output of sample k; every other key holds a
\* list, whose slice [k:k+1] never raises, so the except branch is not taken
SliceEncoderOut(all, k) ==
    [key \in DOMAIN all |->
        IF key = "encoder_out"
        THEN <<[b \in Range0(1) |-> all.encoder_out[1][k + b]]>>
        ELSE IF key = "encoder_padding_mask"
        THEN <<[b \in Range0(1) |-> all.encoder_padding_mask[1][k + b]]>>
        ELSE ListSlice(all[key], k, k + 1)]

\* a per-sample loop that runs the encoder again for each sample
SampleBatch_BeginSampleReencoding ==
    /\ pc = "outer" /\ strategy = "sample_batch"
    /\ sample_idx < num_samples
    /\ IF "all_sampled_tokens" \notin bound
       THEN /\ pc' = "error"
            /\ err' = "UnboundLocalError"
            /\ UNCHANGED <<sampled_tokens, encoder_out, i, buffers, all_encoder_out,
                           encoderCalls>>
       ELSE /\ sampled_tokens' = all_sampled_tokens[sample_idx + 1]
            /\ all_encoder_out' = Encoder(1)
            /\ encoderCalls' = encoderCalls + 1
            /\ encoder_out' = Encoder(1)
            /\ i' = 1
            /\ buffers' = Append(buffers, all_sampled_tokens[sample_idx + 1])
            /\ pc' = "decode"
            /\ err' = "none"
    /\ UNCHANGED <<bound, all_sampled_tokens, incremental_state,
                   sample_idx, probs, all_seqs, result, decoderCalls,
                   rng, drawCalls, written, probsTrace>>
    /\ Frame

SampleBatch_BeginSample ==
    /\ pc = "outer" /\ strategy = "sample_batch"
    /\ sample_idx < num_samples
    /\ IF "all_sampled_tokens" \notin bound
       THEN /\ pc' = "error"
            /\ err' = "UnboundLocalError"
            /\ UNCHANGED <<sampled_tokens, encoder_out, i, buffers>>
       ELSE /\ sampled_tokens' = all_sampled_tokens[sample_idx + 1]
            /\ encoder_out' = SliceEncoderOut(all_encoder_out, sample_idx)
            /\ i' = 1
            /\ buffers' = Append(buffers, all_sampled_tokens[sample_idx + 1])
            /\ pc' = "decode"
            /\ err' = "none"
    /\ UNCHANGED <<bound, all_sampled_tokens, incremental_state, all_encoder_out,
                   sample_idx, probs, all_seqs, result, encoderCalls, decoderCalls,
                   rng, drawCalls, written, probsTrace>>
    /\ Frame

SampleBatch_DecodeStep ==
    /\ pc = "decode" /\ strategy = "sample_batch"
    /\ i <= L
    /\ ApplyStep(DecodeOne(sampled_tokens))
    /\ all_sampled_tokens' =
          [all_sampled_tokens EXCEPT ![sample_idx + 1] = sampled_tokens']
    /\ UNCHANGED <<bound, all_encoder_out, encoder_out, sample_idx, all_seqs,
                   result, encoderCalls>>
    /\ Frame

SampleBatch_FinishSample ==
    /\ pc = "decode" /\ strategy = "sample_batch"
    /\ i > L
    /\ all_seqs' = Append(all_seqs, SeqString(sampled_tokens[0]))
    /\ sample_idx' = sample_idx + 1
    /\ pc' = "outer"
    /\ UNCHANGED <<bound, err, sampled_tokens, all_sampled_tokens, incremental_state,
                   all_encoder_out, encoder_out, i, probs, result, encoderCalls,
                   decoderCalls, rng, drawCalls, written, buffers, probsTrace>>
    /\ Frame

SampleBatch_Return ==
    /\ pc = "outer" /\ strategy = "sample_batch"
    /\ sample_idx >= num_samples
    /\ result' = all_seqs
    /\ pc' = "done"
    /\ UNCHANGED <<bound, err, sampled_tokens, all_sampled_tokens, incremental_state,
                   all_encoder_out, encoder_out, sample_idx, i, probs, all_seqs,
                   encoderCalls, decoderCalls, rng, drawCalls, written, buffers, probsTrace>>
    /\ Frame

(***************************************************************************)
(* sample_batch2, lines 265-333.                                           *)
(***************************************************************************)
SampleBatch2_ToDevice ==
    /\ pc = "device" /\ strategy = "sample_batch2"
    /\ sampled_tokens' = IF device # "None"
                         THEN Repeat(sampled_tokens, num_samples)
                         ELSE sampled_tokens
    /\ pc' = "encout"
    /\ UNCHANGED <<bound, err, all_sampled_tokens, incremental_state, all_encoder_out,
                   encoder_out, sample_idx, i, probs, all_seqs, result, encoderCalls,
                   decoderCalls, rng, drawCalls, written, buffers, probsTrace>>
    /\ Frame

\* lines 277-285: the encoder output of the whole batch
WholeEncoderOut(all) ==
    [key \in DOMAIN all |->
        IF key = "encoder_out" THEN <<all.encoder_out[1]>>
        ELSE IF key = "encoder_padding_mask" THEN <<all.encoder_padding_mask[1]>>
        ELSE all[key]]

SampleBatch2_EncoderOut ==
    /\ pc = "encout" /\ strategy = "sample_batch2"
    /\ encoder_out' = WholeEncoderOut(all_encoder_out)
    /\ bound' = bound \cup {"encoder_out"}
    /\ i' = 1
    /\ buffers' = <<sampled_tokens>>
    /\ pc' = "decode"
    /\ UNCHANGED <<err, sampled_tokens, all_sampled_tokens, incremental_state,
                   all_encoder_out, sample_idx, probs, all_seqs, result,
                   encoderCalls, decoderCalls, rng, drawCalls, written, probsTrace>>
    /\ Frame

SampleBatch2_DecodeStep ==
    /\ pc = "decode" /\ strategy = "sample_batch2"
    /\ i <= L
    /\ ApplyStep(DecodeBatch(sampled_tokens))
    /\ UNCHANGED <<bound, all_sampled_tokens, all_encoder_out, encoder_out,
                   sample_idx, all_seqs, result, encoderCalls>>
    /\ Frame

\* lines 325-329: the strings of rows 0 .. n-1 of tok
RowStrings(tok, n) == [k \in 1 .. n |-> SeqString(tok[k - 1])]

SampleBatch2_Return ==
    /\ pc = "decode" /\ strategy = "sample_batch2"
    /\ i > L
    /\ IF num_samples > Size0(sampled_tokens)
       THEN /\ pc' = "error"
            /\ err' = "IndexError"
            /\ all_seqs' = RowStrings(sampled_tokens, Size0(sampled_tokens))
            /\ sample_idx' = Size0(sampled_tokens)
            /\ UNCHANGED result
       ELSE /\ pc' = "done"
            /\ err' = "none"
            /\ all_seqs' = RowStrings(sampled_tokens, num_samples)
            /\ sample_idx' = num_samples - 1
            /\ result' = RowStrings(sampled_tokens, num_samples)
    /\ UNCHANGED <<bound, sampled_tokens, all_sampled_tokens, incremental_state,
                   all_encoder_out, encoder_out, i, probs, encoderCalls,
                   decoderCalls, rng, drawCalls, written, buffers, probsTrace>>
    /\ Frame

(***************************************************************************)
(* A caller that, once a call has ended, reseeds the generator and calls   *)
(* the same model object again with the same arguments (after sample, also *)
(* sample_batch2 with num_samples = 1).  The new call's locals are unbound;*)
(* the cache object of the ended call is still in memory until the new     *)
(* call binds its own.                                                     *)
(***************************************************************************)
Summary ==
    [strategy |-> strategy, pc |-> pc, err |-> err, result |-> result,
     buffers |-> buffers, probsTrace |-> probsTrace, rng |-> rng,
     drawCalls |-> drawCalls,
     decoderCalls |-> decoderCalls]

CallAgain ==
    /\ pc \in {"done", "error"}
    /\ call = 1
    /\ call' = 2
    /\ prev' = Summary
    /\ strategy' \in {strategy} \cup (IF strategy = "sample" THEN {"sample_batch2"} ELSE {})
    /\ UNCHANGED <<L, num_samples, partial_seq, temperature, device, seed, dec>>
    /\ pc' = "start"
    /\ bound' = {}
    /\ err' = "none"
    /\ sampled_tokens' = <<>>
    /\ all_sampled_tokens' = <<>>
    /\ UNCHANGED incremental_state
    /\ all_encoder_out' = <<>>
    /\ encoder_out' = <<>>
    /\ sample_idx' = 0
    /\ i' = 0
    /\ probs' = <<>>
    /\ all_seqs' = <<>>
    /\ result' = <<>>
    /\ encoderCalls' = 0
    /\ decoderCalls' = 0
    /\ rng' = seed
    /\ drawCalls' = 0
    /\ written' = <<>>
    /\ buffers' = <<>>
    /\ probsTrace' = <<>>

Next ==
    \/ Sample_Init
    \/ Sample_Encode
    \/ Sample_ToDevice
    \/ Sample_DecodeStep
    \/ Sample_Return
    \/ SampleBatch_Init
    \/ SampleBatch_Encode
    \/ SampleBatch_ToDevice
    \/ SampleBatch_BeginSample
    \/ SampleBatch_DecodeStep
    \/ SampleBatch_FinishSample
    \/ SampleBatch_Return
    \/ SampleBatch2_Init
    \/ SampleBatch2_Encode
    \/ SampleBatch2_ToDevice
    \/ SampleBatch2_EncoderOut
    \/ SampleBatch2_DecodeStep
    \/ SampleBatch2_Return
    \/ CallAgain

Spec == Init /\ [][Next]_vars

(***************************************************************************)
(* Vocabulary of the properties.                                           *)
(***************************************************************************)
\* index of the first ">" of a character sequence (0 when there is none)
CloseAt(str) ==
    IF \E k \in 1 .. Len(str) : str[k] = ">"
    THEN CHOOSE k \in 1 .. Len(str) :
            str[k] = ">" /\ \A m \in 1 .. (k - 1) : str[m] # ">"
    ELSE 0

RECURSIVE Symbols(_)
\* the symbols a returned string is made of: "<...>" groups and single characters
Symbols(str) ==
    IF str = <<>> THEN <<>>
    ELSE LET n == IF Head(str) = "<" /\ CloseAt(str) > 0 THEN CloseAt(str) ELSE 1
         IN  <<SubSeq(str, 1, n)>> \o Symbols(SubSeq(str, n + 1, Len(str)))

\* the positions 1..L that partial_seq fixes
FixedPositions ==
    IF partial_seq.isNone THEN {}
    ELSE {k \in 1 .. Len(partial_seq.toks) : partial_seq.toks[k] # MaskTok}

\* the positions 1..L that are the mask index once the buffer is initialized
PendingPositions == (1 .. L) \ FixedPositions

PartialFits == partial_seq.isNone \/ Len(partial_seq.toks) <= L

Ended == pc \in {"done", "error"}

\* whether row holds partial_seq's symbol at every position partial_seq fixes
KeepsFixed(row) ==
    \A k \in FixedPositions : row[k] = get_idx(partial_seq.toks[k])

\* C1: when partial_seq is no longer than L, in every state after the buffer
\* is initialized every token buffer (the one being decoded, the per-sample
\* clones, every buffer an earlier step left) holds at position k+1 the index
\* of the symbol partial_seq[k] fixes, and symbol k of every returned string is
\* that symbol.
C1_FixedPositionsKept ==
    (PartialFits /\ pc # "start") =>
        /\ \A r \in DOMAIN sampled_tokens : KeepsFixed(sampled_tokens[r])
        /\ \A n \in DOMAIN all_sampled_tokens :
              \A r \in DOMAIN all_sampled_tokens[n] :
                 KeepsFixed(all_sampled_tokens[n][r])
        /\ \A n \in DOMAIN buffers :
              \A r \in DOMAIN buffers[n] : KeepsFixed(buffers[n][r])
        /\ \A n \in DOMAIN all_seqs :
              \A k \in FixedPositions :
                 Symbols(all_seqs[n])[k] = partial_seq.toks[k]
        /\ \A n \in DOMAIN result :
              \A k \in FixedPositions :
                 Symbols(result[n])[k] = partial_seq.toks[k]

\* C1 witness: sample_batch returned two sequences for a partial_seq whose
\* first position is pending and drawn and whose second is fixed.
C1_Witness ==
    /\ strategy = "sample_batch" /\ pc = "done" /\ num_samples = 2
    /\ L = 2 /\ FixedPositions = {2}
    /\ Len(written) = 2
    /\ Len(result) = 2

\* a call whose arguments meet the documented contract
ValidInputs == PartialFits /\ temperature > 0

\* C2: sample_batch with valid inputs never ends in an error, and returns
\* num_samples sequences, sequence k being positions 1..L of clone k.
C2_SampleBatchReturns ==
    (strategy = "sample_batch" /\ ValidInputs) =>
        /\ pc # "error"
        /\ pc = "done" =>
              /\ Len(result) = num_samples
              /\ \A k \in 1 .. num_samples :
                    Symbols(result[k]) =
                       [q \in 1 .. L |-> get_tok(all_sampled_tokens[k][0][q])]

\* C8: in every strategy a partial_seq longer than L ends the call with an
\* IndexError while the buffer is initialized: no encoder call, no decoder
\* call, the cache is never bound or touched, nothing is returned.
C8_TooLongFailsEarly ==
    (~partial_seq.isNone /\ Len(partial_seq.toks) > L /\ pc # "start") =>
        /\ pc = "error" /\ err = "IndexError"
        /\ encoderCalls = 0 /\ decoderCalls = 0
        /\ "incremental_state" \notin bound
        /\ call = 1 => incremental_state = <<>>
        /\ all_seqs = <<>> /\ result = <<>>

\* C8 witness: a sample_batch2 call ended by the IndexError.
C8_Witness ==
    /\ strategy = "sample_batch2" /\ pc = "error" /\ err = "IndexError"
    /\ Len(partial_seq.toks) = L + 1

\* C3: sample_batch2 with valid inputs decodes a buffer of num_samples rows of
\* length L+1, never ends in an error, and returns num_samples sequences.
C3_SampleBatch2Shape ==
    (strategy = "sample_batch2" /\ ValidInputs) =>
        /\ pc # "error"
        /\ pc \in {"decode", "done"} =>
              /\ Size0(sampled_tokens) = num_samples
              /\ \A r \in DOMAIN sampled_tokens : Size0(sampled_tokens[r]) = L + 1
        /\ pc = "done" => Len(result) = num_samples

\* the probability sample's probs (1 x V) gives vocabulary index v
SampleProb(p, v) == p[0][v]

\* the probability sample_batch2's probs (V x B x 1) gives vocabulary index v
\* in the distribution of row j
Batch2Prob(p, j, v) == p[v][j][0]

\* C4: a sample_batch2 call with num_samples = 1 that follows a sample call
\* with the same arguments, decoder and seed computes at every step the
\* distribution sample computed at that step, and ends as sample ended, with
\* the same sequence.
C4_Batch2OfOneIsSample ==
    (call = 2 /\ prev.strategy = "sample" /\ strategy = "sample_batch2"
        /\ ValidInputs) =>
        /\ \A n \in DOMAIN probsTrace :
              /\ n \in DOMAIN prev.probsTrace
              /\ probsTrace[n] # <<>> =>
                    \A v \in Vocab :
                       Batch2Prob(probsTrace[n], 0, v)
                          = SampleProb(prev.probsTrace[n], v)
        /\ Ended => (pc = prev.pc /\ result = prev.result)

\* C5: with temperature <= 0 no strategy ever invokes the decoder or returns:
\* the call ends in an error with zero decoder invocations.
C5_BadTemperatureFailsEarly ==
    (temperature <= 0) =>
        /\ decoderCalls = 0
        /\ pc # "done"
        /\ result = <<>>

\* C6: with valid inputs, every index the decode loop writes is an ordinary
\* alphabet symbol, and no position 1..L of a returned sequence's buffer is a
\* special index.
C6_NoSpecialTokenSampled ==
    ValidInputs =>
        /\ \A n \in DOMAIN written : written[n][3] \notin SpecialIdx
        /\ pc = "done" =>
              \A r \in DOMAIN sampled_tokens :
                 \A q \in PendingPositions : sampled_tokens[r][q] \notin SpecialIdx

\* C7: sample with valid inputs returns a string of exactly L characters.
C7_SampleLength ==
    (strategy = "sample" /\ ValidInputs /\ pc = "done") =>
        Len(result[1]) = L

\* what the encoder returned, under the name the strategy binds it to
EncoderOutput == IF strategy = "sample" THEN encoder_out ELSE all_encoder_out

\* C9: the encoder is invoked at most once per call, exactly once in every
\* call that got past the initialization of the buffer, always before the
\* first decoder invocation and never between decode steps; what it returned
\* is never modified afterwards.
C9_EncoderOnce ==
    /\ [](/\ encoderCalls <= 1
          /\ decoderCalls > 0 => encoderCalls = 1
          /\ pc \in {"device", "outer", "encout", "decode", "done"} =>
                encoderCalls = 1)
    /\ [][(call' = call /\ encoderCalls = 1) =>
             /\ encoderCalls' = 1
             /\ EncoderOutput' = EncoderOutput]_vars

\* C9 witness: sample_batch decoded two samples of length 2 on one encoder call.
C9_Witness ==
    /\ strategy = "sample_batch" /\ pc = "done" /\ num_samples = 2 /\ L = 2
    /\ decoderCalls = 4 /\ encoderCalls = 1

\* C10: a call repeated with the same strategy, arguments, decoder and seed
\* goes through the token buffers of the first call, in order, and ends as
\* the first call ended: same outcome, same returned sequences.
C10_Deterministic ==
    (call = 2 /\ prev.strategy = strategy) =>
        /\ Len(buffers) <= Len(prev.buffers)
        /\ \A n \in DOMAIN buffers : buffers[n] = prev.buffers[n]
        /\ Ended =>
              /\ pc = prev.pc /\ err = prev.err
              /\ buffers = prev.buffers
              /\ result = prev.result

\* C10 witness: a repeated sample_batch call returned, after drawing at least
\* one position in each of two samples.
C10_Witness ==
    /\ call = 2 /\ prev.strategy = strategy /\ strategy = "sample_batch"
    /\ pc = "done" /\ num_samples = 2 /\ Len(written) >= 2

\* the decode loop is about to invoke the decoder on the prefix of length i
AboutToDecode == pc = "decode" /\ i <= L

\* C11: with valid inputs, whenever the decoder is about to be invoked on a
\* prefix of length i, the cache holds exactly i-1 entries, entry n made by the invocation on the
\* prefix of length n of the buffer now being decoded, in this call and for
\* this sample.
C11_CacheOfThisPrefixOnly ==
    (ValidInputs /\ AboutToDecode) =>
        /\ Len(incremental_state) = i - 1
        /\ \A n \in 1 .. Len(incremental_state) :
              /\ incremental_state[n].by = <<call, sample_idx>>
              /\ incremental_state[n].len = n
              /\ \A r \in DOMAIN incremental_state[n].toks :
                    incremental_state[n].toks[r] = sampled_tokens[r][n - 1]

\* the sequences a call decodes, each named by <<row, sample_idx>>
DecodedSequences ==
    IF strategy = "sample" THEN {<<0, 0>>}
    ELSE IF strategy = "sample_batch" THEN {<<0, k>> : k \in Range0(num_samples)}
    ELSE {<<j, 0>> : j \in Range0(num_samples)}

\* the writes of the decode loops to position q of sequence sq
WritesTo(sq, q) ==
    {n \in DOMAIN written :
        written[n][1] = sq[1] /\ written[n][4] = sq[2] /\ written[n][2] = q}

\* C12: with valid inputs, in every strategy the decoding position of a
\* sequence goes 1, 2, ..., L with one decoder invocation each; a write to
\* position q happens only at step q, only when q was pending, and at most
\* once; the call ends in its terminal state, after step L, with every pending
\* position of every sequence written exactly once.
C12_DecodeStateMachine ==
    ValidInputs =>
        /\ pc = "decode" =>
              /\ i \in 1 .. (L + 1)
              /\ decoderCalls = sample_idx * L + (i - 1)
        /\ \A n \in DOMAIN written :
              /\ written[n][2] \in PendingPositions
              /\ pc = "decode" /\ written[n][4] = sample_idx
                    => written[n][2] < i
              /\ \A m \in DOMAIN written :
                    (m < n /\ written[m][1] = written[n][1]
                           /\ written[m][4] = written[n][4])
                       => written[m][2] < written[n][2]
        /\ Ended =>
              /\ pc = "done"
              /\ \A sq \in DecodedSequences : \A q \in PendingPositions :
                    Cardinality(WritesTo(sq, q)) = 1

\* the sum of the probabilities sample_batch2's probs gives the vocabulary
\* indices 0..v in the distribution of row j, over their common denominator
RECURSIVE Batch2Mass(_, _, _)
Batch2Mass(p, j, v) ==
    IF v < 0 THEN 0 ELSE Batch2Prob(p, j, v).n + Batch2Mass(p, j, v - 1)

\* C13: in sample_batch2 with valid inputs, after every decoder invocation the
\* distribution of each row j has one probability per vocabulary index and
\* these sum to 1, and the draw from it yields one index (the step does not
\* raise).
C13_Batch2RowDistribution ==
    (strategy = "sample_batch2" /\ ValidInputs /\ probs # <<>>) =>
        /\ err # "RuntimeError"
        /\ \A j \in DOMAIN sampled_tokens :
              /\ \A v \in Vocab : Batch2Prob(probs, j, v).k = "fin"
              /\ Batch2Mass(probs, j, V - 1) = Batch2Prob(probs, j, 0).d

\* C14: a call that returns made L decoder invocations in sample and in
\* sample_batch2 and num_samples * L in sample_batch, on prefixes of lengths
\* 1, 2, ..., L in that order for each sequence, whatever partial_seq fixes.
C14_DecoderEveryPosition ==
    pc = "done" =>
        /\ decoderCalls = (IF strategy = "sample_batch" THEN num_samples * L ELSE L)
        /\ Len(incremental_state) = decoderCalls
        /\ \A n \in DOMAIN incremental_state :
              incremental_state[n].len = ((n - 1) % L) + 1

\* C14 witness: sample_batch returned two samples of length 2 whose first
\* position is fixed and whose second was drawn.
C14_Witness ==
    /\ strategy = "sample_batch" /\ pc = "done" /\ num_samples = 2 /\ L = 2
    /\ FixedPositions = {1}
    /\ Len(written) = 2 /\ decoderCalls = 4

\* C15: in every state after initialization position 0 of every buffer is the
\* sequence-start index; while decoding, the positions from i on and the
\* buffers of the samples not yet begun hold their initialization values; and
\* a decode step at position i changes nothing but position i of the buffer
\* being decoded.
C15_StepFrame ==
    /\ [](pc # "start" =>
            /\ \A r \in DOMAIN sampled_tokens : sampled_tokens[r][0] = cath_idx
            /\ \A k \in DOMAIN all_sampled_tokens :
                  /\ all_sampled_tokens[k][0][0] = cath_idx
                  /\ (pc \in {"outer", "decode"} /\ k > sample_idx + 1)
                        => all_sampled_tokens[k] = InitialTokens
            /\ AboutToDecode =>
                  \A r \in DOMAIN sampled_tokens : \A q \in i .. L :
                     sampled_tokens[r][q] = InitialTokens[0][q])
    /\ [][AboutToDecode =>
             /\ DOMAIN sampled_tokens' = DOMAIN sampled_tokens
             /\ \A r \in DOMAIN sampled_tokens : \A q \in 0 .. L :
                   q # i => sampled_tokens'[r][q] = sampled_tokens[r][q]
             /\ \A k \in DOMAIN all_sampled_tokens :
                   k # sample_idx + 1
                      => all_sampled_tokens'[k] = all_sampled_tokens[k]]_vars

\* C15 witness: sample_batch is past step 1 of its second sample, which wrote.
C15_Witness ==
    /\ strategy = "sample_batch" /\ pc = "decode" /\ sample_idx = 1 /\ i = 2
    /\ L = 2
    /\ written # <<>> /\ written[Len(written)] =
                            <<0, 1, sampled_tokens[0][1], 1>>

\* C16: with valid inputs, a call that returns made exactly one multinomial
\* call per pending (sequence, position) pair, each followed by the write of
\* its value; and a sample_batch2 call with num_samples = 1 ends having made
\* as many as the sample call with the same arguments made.
C16_DrawAccounting ==
    ValidInputs =>
        /\ pc = "done" =>
              /\ drawCalls = Cardinality(DecodedSequences) * Cardinality(PendingPositions)
              /\ Len(written) = drawCalls
        /\ (call = 2 /\ prev.strategy = "sample" /\ strategy = "sample_batch2"
               /\ Ended)
              => drawCalls = prev.drawCalls

\* the slice of sample k of a one-element list holding a tensor whose first
\* axis is the batch
SampleSlice(lst, k) == <<[b \in Range0(1) |-> lst[1][k + b]]>>

\* C17: while sample_batch decodes sample k, the encoder output handed to the
\* decoder holds row k of the embeddings and of the padding mask, and under
\* every other key either sample k's slice of the encoder's value or the
\* whole value; a non-empty value never becomes empty.
C17_PerSampleEncoderOut ==
    (strategy = "sample_batch" /\ pc = "decode") =>
        /\ encoder_out.encoder_out
              = SampleSlice(all_encoder_out.encoder_out, sample_idx)
        /\ encoder_out.encoder_padding_mask
              = SampleSlice(all_encoder_out.encoder_padding_mask, sample_idx)
        /\ \A key \in DOMAIN all_encoder_out :
              /\ \/ encoder_out[key] = all_encoder_out[key]
                 \/ /\ all_encoder_out[key] # <<>>
                    /\ encoder_out[key] = SampleSlice(all_encoder_out[key], sample_idx)
              /\ all_encoder_out[key] # <<>> => encoder_out[key] # <<>>

====
